---- MODULE Spec2Model ----
(***************************************************************************)
(* A model of CombinedModFix.py: the section splitter, the FaceFix pass,   *)
(* the ORFix pass, the combined driver and the preview/apply loop of main. *)
(*                                                                         *)
(* Text is a sequence of lexemes.  Every whitespace character is a lexeme  *)
(* of its own (" ", "\t", "\r", "\n"), and so are "[", "]", "=", ";", "\\"; *)
(* every other lexeme is a run of non-whitespace characters that the       *)
(* program's patterns only ever look at as a whole (a key such as "ps-t0", *)
(* a name part such as "CommandList" or "Face").  The concatenation of a   *)
(* text's lexemes is the file's text; a line is a sequence of lexemes.     *)
(***************************************************************************)
EXTENDS Integers, Sequences, FiniteSets, TLC

VARIABLES
    pc,               \* the step the run has reached
    text,             \* the input text (a file's content)
    auto_mode,        \* policy: auto mode on/off
    manual_excludes,  \* policy: the set of manually excluded "[Name]" headers
    process_disabled, \* policy: files holding the DISABLED marker are processed
    sections,         \* split_into_sections(text)
    face,             \* result of the first FaceFix pass
    sections2,        \* split_into_sections of the first FaceFix pass's text
    face2,            \* result of the FaceFix pass run on the first pass's text
    orfix,            \* result of the first ORFix pass
    orfix2,           \* result of the ORFix pass run on the first pass's text
    driver,           \* what process_file_combined returned
    orig,             \* main: the content of each file when the run starts
    disk,             \* main: the content of each file now
    make_backup,      \* main: the answer to "Create backups before modifying?"
    ini_files,        \* main: the files collected, in the order of the walk
    idx,              \* main: the place of the running loop in its list
    results,          \* main: what process_file_combined returned, per file
    final_texts,      \* main: the files with changes and their new text
    apply_confirmed,  \* main: the answer to "Apply changes to n file(s)?"
    written,          \* main: the files opened for writing
    failed            \* main: the files whose backup or write failed

inputVars == <<text, auto_mode, manual_excludes, process_disabled>>
passVars == <<sections, face, sections2, face2, orfix, orfix2, driver>>
mainVars == <<orig, disk, make_backup, ini_files, idx, results, final_texts,
              apply_confirmed, written, failed>>
vars == <<pc, inputVars, passVars, mainVars>>

(***************************************************************************)
(* Strings                                                                 *)
(***************************************************************************)

\* The characters \s matches and str.strip() removes.
WS == {" ", "\t", "\r", "\n"}

\* ''.join(parts)
RECURSIVE Concat(_)
Concat(parts) ==
    IF parts = <<>> THEN <<>> ELSE Head(parts) \o Concat(Tail(parts))

\* s.lstrip()
RECURSIVE LStrip(_)
LStrip(s) ==
    IF s # <<>> /\ Head(s) \in WS THEN LStrip(Tail(s)) ELSE s

\* s.rstrip()
RECURSIVE RStrip(_)
RStrip(s) ==
    IF s # <<>> /\ s[Len(s)] \in WS THEN RStrip(SubSeq(s, 1, Len(s) - 1)) ELSE s

\* s.strip()
Strip(s) == RStrip(LStrip(s))

\* text.splitlines(True) from position i on, cur being the line collected so
\* far: a line ends after "\n", after "\r\n" and after a lone "\r", and keeps
\* its terminator; a last line without terminator is kept as it is.
RECURSIVE SplitLinesFrom(_, _, _)
SplitLinesFrom(t, i, cur) ==
    IF i > Len(t) THEN (IF cur = <<>> THEN <<>> ELSE <<cur>>)
    ELSE IF t[i] = "\n" THEN <<Append(cur, "\n")>> \o SplitLinesFrom(t, i + 1, <<>>)
    ELSE IF t[i] = "\r" THEN
        IF i < Len(t) /\ t[i + 1] = "\n"
        THEN <<cur \o <<"\r", "\n">>>> \o SplitLinesFrom(t, i + 2, <<>>)
        ELSE <<Append(cur, "\r")>> \o SplitLinesFrom(t, i + 1, <<>>)
    ELSE SplitLinesFrom(t, i + 1, Append(cur, t[i]))

splitlines(t) == SplitLinesFrom(t, 1, <<>>)

(***************************************************************************)
(* Section splitter                                                        *)
(***************************************************************************)

\* SECTION_HEADER_RE.match(line): ^\s*\[(.+?)\]\s*$ .  Between the leading
\* and the trailing whitespace the line is "[", at least one character,
\* "]" ("." matches no "\n", which a line holds only at its end).
SECTION_HEADER_RE(line) ==
    LET s == Strip(line)
    IN  Len(s) >= 3 /\ s[1] = "[" /\ s[Len(s)] = "]"

\* m.group(1).strip(): the lazy group ends at the last "]", the only one
\* that whitespace alone follows.
HeaderName(line) ==
    LET s == Strip(line) IN Strip(SubSeq(s, 2, Len(s) - 1))

\* The (current_header, current_lines) pair before the first header:
\* current_header is None.
NoSection == [named |-> FALSE, header |-> <<>>, lines |-> <<>>]

\* A mutant of Flush: the text before the first header is dropped.
FlushNamedOnly(secs, cur) ==
    IF cur.named THEN Append(secs, cur) ELSE secs

\* if current_lines or current_header is not None: sections.append(...)
Flush(secs, cur) ==
    IF cur.lines # <<>> \/ cur.named THEN Append(secs, cur) ELSE secs

RECURSIVE SplitLoop(_, _, _, _)
SplitLoop(lines, i, cur, secs) ==
    IF i > Len(lines) THEN Flush(secs, cur)
    ELSE IF SECTION_HEADER_RE(lines[i])
         THEN SplitLoop(lines, i + 1,
                        [named |-> TRUE, header |-> HeaderName(lines[i]),
                         lines |-> <<lines[i]>>],
                        Flush(secs, cur))
         ELSE SplitLoop(lines, i + 1,
                        [cur EXCEPT !.lines = Append(@, lines[i])], secs)

split_into_sections(t) == SplitLoop(splitlines(t), 1, NoSection, <<>>)

\* The lines of all the sections, in order.
RECURSIVE SectionLines(_)
SectionLines(secs) ==
    IF secs = <<>> THEN <<>> ELSE Head(secs).lines \o SectionLines(Tail(secs))

(***************************************************************************)
(* Lexeme classes                                                          *)
(***************************************************************************)

\* str.lower() of a lexeme (re.IGNORECASE compares through it); a lexeme not
\* listed holds no upper-case letter.
Lower(tok) ==
    CASE tok = "CommandList" -> "commandlist"
      [] tok = "COMMANDLIST" -> "commandlist"
      [] tok = "TextureOverride" -> "textureoverride"
      [] tok = "Face" -> "face"
      [] tok = "Limb" -> "limb"
      [] tok = "Body" -> "body"
      [] tok = "IB" -> "ib"
      [] tok = "Position" -> "position"
      [] tok = "LoadA2" -> "loada2"
      [] tok = "Resource" -> "resource"
      [] tok = "Constants" -> "constants"
      [] tok = "NormalMap" -> "normalmap"
      [] tok = "PS-T0" -> "ps-t0"
      [] tok = "RUN" -> "run"
      [] tok = "NNFix" -> "nnfix"
      [] tok = "ORFix" -> "orfix"
      [] tok = "\\global\\ORFix\\" -> "\\global\\orfix\\"
      [] tok = "X" -> "x"
      [] tok = "A" -> "a"
      [] tok = "DISABLED" -> "disabled"
      [] OTHER -> tok

\* The lexemes that hold a character \w does not match.
NonWord ==
    WS \cup {"[", "]", "=", "\\", ";", "ps-t0", "ps-t1", "PS-T0", "\\global\\ORFix\\"}

\* 'face' in tok.lower()
HasFace(tok) == Lower(tok) \in {"face"}

\* tok.lower() starts with 'commandlist' or 'textureoverride'
IsPrefixLexeme(tok) == Lower(tok) \in {"commandlist", "textureoverride"}

\* The leading and the trailing whitespace of s.
LeadWS(s) == SubSeq(s, 1, Len(s) - Len(LStrip(s)))
TrailWS(s) == SubSeq(s, Len(RStrip(s)) + 1, Len(s))

\* s.rstrip('\r\n')
RECURSIVE RStripEol(_)
RStripEol(s) ==
    IF s # <<>> /\ s[Len(s)] \in {"\r", "\n"}
    THEN RStripEol(SubSeq(s, 1, Len(s) - 1)) ELSE s

(***************************************************************************)
(* FaceFix                                                                 *)
(***************************************************************************)

\* is_face_section_by_header(header); sec.named is "header is not None".
is_face_section_by_header(sec) ==
    /\ sec.named
    /\ sec.header # <<>>
    /\ \E i \in 1..Len(sec.header) : HasFace(sec.header[i])
    /\ IsPrefixLexeme(sec.header[1])

\* RUN_FACE_RE.match(line): ^\s*run\s*=\s*(CommandList\w*Face\w*)\s*$ ,
\* ignoring case.
RUN_FACE_RE(line) ==
    LET s == Strip(line)
        b == IF s = <<>> THEN <<>> ELSE LStrip(Tail(s))
        name == IF b = <<>> THEN <<>> ELSE LStrip(Tail(b))
    IN  /\ s # <<>> /\ Lower(s[1]) = "run"
        /\ b # <<>> /\ b[1] = "="
        /\ Len(name) >= 2
        /\ Lower(name[1]) = "commandlist"
        /\ \A i \in 1..Len(name) : name[i] \notin NonWord
        /\ \E i \in 2..Len(name) : HasFace(name[i])

\* section_has_run_face(lines)
section_has_run_face(lines) ==
    \E i \in 1..Len(lines) : RUN_FACE_RE(lines[i])

NoMatch == [ok |-> FALSE, indent |-> <<>>, rhs |-> <<>>, trailing |-> <<>>]

\* PS_T0_RE.match(ln): ^(\s*)(ps-t0)\s*=\s*(.+?)(\s*)$ , ignoring case, on a
\* line as splitlines gives it (a "\n" only at its end).  The groups are
\* (indent, rhs, trailing).  The lazy rhs ends at the last character that is
\* not whitespace and the greedy trailing group takes the rest, the line's
\* terminator included.  When only whitespace follows "=", the \s* before
\* the value gives its last character that "." can match back to the value.
PS_T0_RE(ln) ==
    LET a == LStrip(ln)
        b == IF a = <<>> THEN <<>> ELSE LStrip(Tail(a))
        c == IF b = <<>> THEN <<>> ELSE Tail(b)
        R == LStrip(c)
        k == Len(c)
    IN  IF ~(a # <<>> /\ Lower(a[1]) = "ps-t0" /\ b # <<>> /\ b[1] = "=")
        THEN NoMatch
        ELSE IF R # <<>>
        THEN [ok |-> TRUE, indent |-> LeadWS(ln),
              rhs |-> RStrip(R), trailing |-> TrailWS(R)]
        ELSE IF k >= 1 /\ c[k] # "\n"
        THEN [ok |-> TRUE, indent |-> LeadWS(ln),
              rhs |-> <<c[k]>>, trailing |-> <<>>]
        ELSE IF k >= 2
        THEN [ok |-> TRUE, indent |-> LeadWS(ln),
              rhs |-> <<c[k - 1]>>, trailing |-> <<"\n">>]
        ELSE NoMatch

\* newline = '\r\n' if ln.endswith('\r\n'), '\n' if ln.endswith('\n'), else ''
LineEnding(ln) ==
    IF Len(ln) >= 2 /\ ln[Len(ln) - 1] = "\r" /\ ln[Len(ln)] = "\n" THEN <<"\r", "\n">>
    ELSE IF Len(ln) >= 1 /\ ln[Len(ln)] = "\n" THEN <<"\n">>
    ELSE <<>>

\* A mutant of FaceNewLine: the key is kept.
FaceNewLineKeepsKey(ln, m) ==
    m.indent \o <<"ps-t0", " ", "=", " ">> \o m.rhs \o m.trailing \o LineEnding(ln)

\* new_line = f"{indent}this = {rhs}{trailing}{newline}"
FaceNewLine(ln, m) ==
    m.indent \o <<"this", " ", "=", " ">> \o m.rhs \o m.trailing \o LineEnding(ln)

\* f"[{header}]"
Bracketed(header) == <<"[">> \o header \o <<"]">>

\* full_section in manual_excludes, with full_section = None for a header
\* that is None or empty.
FaceExcluded(sec, excludes) ==
    sec.named /\ sec.header # <<>> /\ Bracketed(sec.header) \in excludes

\* allowed, for one section.
FaceAllowed(sec, excludes) ==
    IF FaceExcluded(sec, excludes) THEN FALSE
    ELSE is_face_section_by_header(sec) \/ section_has_run_face(sec.lines)

\* One line of an allowed section that PS_T0_RE matches: the new line is
\* appended and the change recorded.
FaceRewrite(sec, acc, ln, new_line) ==
    [changed |-> Append(acc.changed,
        [kind |-> "FACE", named |-> sec.named, header |-> sec.header,
         line_no |-> acc.file_line_no + 1, old |-> RStripEol(ln),
         new |-> RStripEol(new_line)]),
     out_lines |-> Append(acc.out_lines, new_line),
     file_line_no |-> acc.file_line_no + 1]

\* One line: m is PS_T0_RE.match(ln).
FaceLine(sec, allowed, acc, ln, m) ==
    IF allowed /\ m.ok
    THEN FaceRewrite(sec, acc, ln, FaceNewLine(ln, m))
    ELSE [acc EXCEPT !.out_lines = Append(@, ln), !.file_line_no = @ + 1]

\* The inner loop over the lines of one section, from line j on; acc is
\* (changed, out_lines, file_line_no).
RECURSIVE FaceLines(_, _, _, _)
FaceLines(sec, allowed, j, acc) ==
    IF j > Len(sec.lines) THEN acc
    ELSE FaceLines(sec, allowed, j + 1,
                   FaceLine(sec, allowed, acc, sec.lines[j], PS_T0_RE(sec.lines[j])))

\* The outer loop over the sections, from section i on.
RECURSIVE FaceSections(_, _, _, _)
FaceSections(secs, excludes, i, acc) ==
    IF i > Len(secs) THEN acc
    ELSE FaceSections(secs, excludes, i + 1,
            FaceLines(secs[i], FaceAllowed(secs[i], excludes), 1, acc))

FaceResult(r) ==
    [changed |-> r.changed, out_lines |-> r.out_lines, new_text |-> Concat(r.out_lines)]

\* process_face_sections(sections, auto_mode, manual_excludes): the change
\* list, the output lines and their concatenation.
process_face_sections(secs, auto, excludes) ==
    FaceResult(FaceSections(secs, excludes, 1,
                            [changed |-> <<>>, out_lines |-> <<>>, file_line_no |-> 0]))

(***************************************************************************)
(* Exclusion classifier                                                    *)
(***************************************************************************)

\* AUTO_EXCLUDE_PATTERNS, matched against f"[{header}]" ignoring case.  A
\* name is a sequence of lexemes; a pattern's literal parts are whole lexemes.
\*   ^\[.*IB\]$ : the name ends in "IB".
EndsInIB(name) == Lower(name[Len(name)]) \in {"ib"}

\*   ^\[(CommandList|TextureOverride).*(Position|Texcoord|Blend|Info|
\*   VertexLimitRaise)\]$ : a prefixed name that ends in one of the suffixes.
EndsInExcludedSuffix(name) ==
    /\ Len(name) >= 2
    /\ IsPrefixLexeme(name[1])
    /\ Lower(name[Len(name)]) \in
          {"position", "texcoord", "blend", "info", "creditinfo", "vertexlimitraise"}

\*   COMMANDLIST_EXCLUSIONS: ^\[CommandListLoadA2?\]$ and the like.
IsListedCommandList(name) ==
    /\ Len(name) = 2
    /\ Lower(name[1]) = "commandlist"
    /\ Lower(name[2]) \in
          {"creditinfo", "menu",
           "loada", "loada2", "loadb", "loadb2", "loadc", "loadc2", "loadd", "loadd2",
           "savea", "savea2", "saveb", "saveb2", "savec", "savec2", "saved", "saved2",
           "random0", "random1", "random2", "random3", "random4", "random5",
           "random0d", "random1d", "random2d", "random3d", "random4d", "random5d"}

\* should_auto_exclude_section(header)
should_auto_exclude_section(header) ==
    IF header = <<>> THEN FALSE
    ELSE \/ EndsInIB(header)
         \/ EndsInExcludedSuffix(header)
         \/ IsListedCommandList(header)

\* should_auto_mode_exclude(header): 'face' or 'limbs?' anywhere in the name,
\* ignoring case.
should_auto_mode_exclude(header) ==
    IF header = <<>> THEN FALSE
    ELSE \E i \in 1..Len(header) :
            HasFace(header[i]) \/ Lower(header[i]) \in {"limb", "limbs"}

(***************************************************************************)
(* ORFix                                                                   *)
(***************************************************************************)

\* RUN_LINE_PATTERN.match(line):
\* \s*run\s*=\s*CommandList\\global\\ORFix\\(NNFix|ORFix) at the start of
\* the line, ignoring case; what follows is not looked at.
RUN_LINE_PATTERN(line) ==
    LET a == LStrip(line)
        b == IF a = <<>> THEN <<>> ELSE LStrip(Tail(a))
        c == IF b = <<>> THEN <<>> ELSE LStrip(Tail(b))
    IN  /\ a # <<>> /\ Lower(a[1]) = "run"
        /\ b # <<>> /\ b[1] = "="
        /\ Len(c) >= 3
        /\ Lower(c[1]) = "commandlist"
        /\ Lower(c[2]) = "\\global\\orfix\\"
        /\ Lower(c[3]) \in {"nnfix", "orfix"}

NotRunLine(line) == ~RUN_LINE_PATTERN(line)

\* re.match(r'ps-t\d+', line.lstrip()): no IGNORECASE here.
IsSlotLine(line) ==
    LET a == LStrip(line) IN a # <<>> /\ a[1] \in {"ps-t0", "ps-t1"}

\* re.match(r'\s*ps-t0\s*=', l, re.IGNORECASE)
IsPsT0Assignment(line) ==
    LET a == LStrip(line)
        b == IF a = <<>> THEN <<>> ELSE LStrip(Tail(a))
    IN  a # <<>> /\ Lower(a[1]) = "ps-t0" /\ b # <<>> /\ b[1] = "="

\* "NormalMap" in line
HasNormalMap(line) == \E i \in 1..Len(line) : line[i] \in {"NormalMap"}

\* The directive with its "\n", for a block with or without a normal map.
CorrectRun(has_normal) ==
    <<"run", " ", "=", " ", "CommandList", "\\global\\ORFix\\",
      IF has_normal THEN "ORFix" ELSE "NNFix", "\n">>

\* last_ps_index + 1 (0 for None): the place in the block of its last slot
\* assignment, found before any line is removed.
LastPsIndex(block) ==
    LET S == {i \in 1..Len(block) : IsSlotLine(block[i])}
    IN  IF S = {} THEN 0 ELSE CHOOSE i \in S : \A j \in S : j <= i

\* The ORFIX_REMOVE changes of the lines of block, in order.
RECURSIVE RemoveChanges(_, _)
RemoveChanges(block, name) ==
    IF block = <<>> THEN <<>>
    ELSE (IF RUN_LINE_PATTERN(Head(block))
          THEN <<[kind |-> "ORFIX_REMOVE", section |-> name, data |-> Strip(Head(block))]>>
          ELSE <<>>) \o RemoveChanges(Tail(block), name)

\* "Add correct run line after last ps-t": kept is the block without its
\* run lines, p the place found before they were removed.
OrfixInsert(kept, p, correct_run, removes, name) ==
    IF /\ p # 0
       /\ p <= Len(kept)
       /\ ~(Len(kept) > p /\ Strip(kept[p + 1]) = Strip(correct_run))
    THEN [block |-> SubSeq(kept, 1, p) \o <<correct_run>> \o SubSeq(kept, p + 1, Len(kept)),
          changes |-> Append(removes, [kind |-> "ORFIX_ADD", section |-> name,
                                       data |-> Strip(correct_run)])]
    ELSE [block |-> kept, changes |-> removes]

\* process_orfix_block(block, section_name) for a block that is not empty.
process_orfix_block(block, name) ==
    OrfixInsert(SelectSeq(block, NotRunLine),
                LastPsIndex(block),
                CorrectRun(\E i \in 1..Len(block) : HasNormalMap(block[i])),
                RemoveChanges(block, name),
                name)

\* stripped.startswith("[CommandList") or stripped.startswith("[TextureOverride"):
\* the comparison keeps the case.
IsOrfixHeader(line) ==
    LET s == Strip(line)
    IN  Len(s) >= 2 /\ s[1] = "[" /\ s[2] \in {"CommandList", "TextureOverride"}

\* current_section = stripped[1:-1].  The first and the last lexeme of the
\* header lines of the inputs are one character long ("[" and "]").
SectionOf(line) ==
    LET s == Strip(line) IN SubSeq(s, 2, Len(s) - 1)

\* process_block, for the block block_lines of section current_section.
ProcessBlock(name, block_lines, auto, excludes) ==
    LET contains_ps_t0 == \E i \in 1..Len(block_lines) : IsPsT0Assignment(block_lines[i])
        inside_auto_excluded == should_auto_exclude_section(name)
    IN  IF auto
        THEN ~inside_auto_excluded /\ ~should_auto_mode_exclude(name) /\ contains_ps_t0
        ELSE ~inside_auto_excluded /\ ~(Bracketed(name) \in excludes) /\ contains_ps_t0

\* new_lines.extend(...), all_changes.extend(...), block_lines.clear(), and
\* the block logged in st.blocks with the decision taken.
OrfixEmit(st, go, r) ==
    [st EXCEPT
        !.new_lines = @ \o r.block,
        !.all_changes = @ \o r.changes,
        !.block_lines = <<>>,
        !.blocks = Append(@, [at |-> st.at, section |-> st.current_section,
                              header_line |-> st.header_line,
                              body |-> st.block_lines, processed |-> go,
                              out |-> r.block, changes |-> r.changes])]

\* if process_block: process_orfix_block(...) else: the block as it is.
OrfixDecided(st, go) ==
    OrfixEmit(st, go,
              IF go THEN process_orfix_block(st.block_lines, st.current_section)
              ELSE [block |-> st.block_lines, changes |-> <<>>])

\* "if block_lines: ..." : the block collected so far is processed or copied.
OrfixFlush(st, auto, excludes) ==
    IF st.block_lines = <<>> THEN st
    ELSE OrfixDecided(st, ProcessBlock(st.current_section, st.block_lines, auto, excludes))

RECURSIVE OrfixLoop(_, _, _, _, _)
OrfixLoop(lines, i, st, auto, excludes) ==
    IF i > Len(lines) THEN OrfixFlush(st, auto, excludes)
    ELSE IF IsOrfixHeader(lines[i])
    THEN OrfixLoop(lines, i + 1,
            [OrfixFlush(st, auto, excludes) EXCEPT
                !.in_section = TRUE,
                !.current_section = SectionOf(lines[i]),
                !.header_line = lines[i],
                !.at = i,
                !.new_lines = Append(@, lines[i])],
            auto, excludes)
    ELSE IF st.in_section
    THEN OrfixLoop(lines, i + 1, [st EXCEPT !.block_lines = Append(@, lines[i])],
                   auto, excludes)
    ELSE OrfixLoop(lines, i + 1, [st EXCEPT !.new_lines = Append(@, lines[i])],
                   auto, excludes)

OrfixResult(r) ==
    [all_changes |-> r.all_changes, new_text |-> Concat(r.new_lines),
     blocks |-> r.blocks]

\* process_orfix_sections(text, auto_mode, manual_excludes): the changes and
\* the new text, with the log of the blocks met.
process_orfix_sections(t, auto, excludes) ==
    OrfixResult(OrfixLoop(splitlines(t), 1,
                    [new_lines |-> <<>>, block_lines |-> <<>>, in_section |-> FALSE,
                     current_section |-> <<>>, header_line |-> <<>>, at |-> 0,
                     all_changes |-> <<>>, blocks |-> <<>>],
                    auto, excludes))

(***************************************************************************)
(* Combined driver                                                         *)
(***************************************************************************)

\* "DISABLED" in content
HasDisabledMarker(content) ==
    \E i \in 1..Len(content) : content[i] \in {"DISABLED"}

\* all_changes = face_changes + orfix_changes; has_changes = len(...) > 0
CombinedResult(face_changes, o) ==
    [read_ok |-> TRUE, skipped |-> FALSE,
     has_changes |-> Len(face_changes \o o.all_changes) > 0,
     all_changes |-> face_changes \o o.all_changes, new_text |-> o.new_text]

\* process_orfix_sections on the text FaceFix returned.
OrfixAfterFace(f, auto, excludes) ==
    CombinedResult(f.changed, process_orfix_sections(f.new_text, auto, excludes))

\* process_file_combined(file_path, auto_mode, manual_excludes,
\* process_disabled) for a file whose content is content and whose read
\* succeeds (read_ok) or raises: (has_changes, all_changes, new_text), with
\* the path taken.
process_file_combined(content, read_ok, auto, excludes, disabled_too) ==
    IF ~read_ok
    THEN [read_ok |-> FALSE, skipped |-> FALSE, has_changes |-> FALSE,
          all_changes |-> <<>>, new_text |-> <<>>]
    ELSE IF HasDisabledMarker(content) /\ ~disabled_too
    THEN [read_ok |-> TRUE, skipped |-> TRUE, has_changes |-> FALSE,
          all_changes |-> <<>>, new_text |-> content]
    ELSE OrfixAfterFace(process_face_sections(split_into_sections(content), auto, excludes),
                        auto, excludes)

(***************************************************************************)
(* Inputs                                                                  *)
(***************************************************************************)

SeqsUpTo(S, n) == UNION {[1..k -> S] : k \in 0..n}

\* The line terminators of the input files.
Endings == {<<"\n">>, <<"\r", "\n">>, <<>>}

\* The texts of at most n lines, each line one of Bodies followed by one of
\* Ends; only a text's last line may have no terminator.
TextsOf(Bodies, Ends, n) ==
    UNION {
        {Concat([i \in 1..k |-> c[i][1] \o c[i][2]]) :
            c \in {d \in [1..k -> Bodies \X Ends] :
                     \A i \in 1..(k - 1) : d[i][2] # <<>>}} :
        k \in 0..n}

\* The values the result variables hold before their pass has run.
NoFace == [changed |-> <<>>, out_lines |-> <<>>, new_text |-> <<>>]
NoOrfix == [all_changes |-> <<>>, new_text |-> <<>>, blocks |-> <<>>]

NoDriver == [read_ok |-> FALSE, skipped |-> FALSE, has_changes |-> FALSE,
             all_changes |-> <<>>, new_text |-> <<>>]

\* No pass has run.
Idle ==
    /\ sections = <<>>
    /\ face = NoFace
    /\ sections2 = <<>>
    /\ face2 = NoFace
    /\ orfix = NoOrfix
    /\ orfix2 = NoOrfix
    /\ driver = NoDriver

\* There are no files: a pass is run on a text alone.
NoFiles ==
    /\ orig = <<>>
    /\ disk = <<>>
    /\ make_backup = FALSE
    /\ ini_files = <<>>
    /\ idx = 0
    /\ results = <<>>
    /\ final_texts = <<>>
    /\ apply_confirmed = FALSE
    /\ written = {}
    /\ failed = {}

(***************************************************************************)
(* The splitter alone                                                      *)
(***************************************************************************)

MaxSplitLen == 5
SplitLexemes == {"[", "]", "A", " ", "\n", "\r"}

InitSplit ==
    /\ pc = "start"
    /\ text \in SeqsUpTo(SplitLexemes, MaxSplitLen)
    /\ auto_mode = FALSE
    /\ manual_excludes = {}
    /\ process_disabled = FALSE
    /\ Idle
    /\ NoFiles

Split ==
    /\ pc = "start"
    /\ sections' = split_into_sections(text)
    /\ pc' = "split"
    /\ UNCHANGED <<inputVars, mainVars, face, sections2, face2, orfix, orfix2, driver>>

SpecSplit == InitSplit /\ [][Split]_vars

\* C1: concatenating, in order, the lines of the sections that
\* split_into_sections returns gives back the input text, whatever the text.
C1_SplitLossless ==
    pc = "split" => Concat(SectionLines(sections)) = text

\* A text with lines before its first header and a last line (a header)
\* without terminator has been split.
C1_Witness ==
    /\ pc = "split"
    /\ Len(sections) = 2
    /\ ~sections[1].named
    /\ sections[2].named
    /\ text[Len(text)] = "]"

(***************************************************************************)
(* The FaceFix pass                                                        *)
(***************************************************************************)

HdrFace == <<"[", "CommandList", "Face", "]">>
HdrBody == <<"[", "TextureOverride", "Body", "]">>

\* The lines of the FaceFix inputs: two headers, ps-t0 assignments (plain;
\* indented, upper case, with a trailing space; with a blank value), run
\* directives naming a face command list, with and without a path separator.
FaceIdemBodies ==
    { HdrFace, HdrBody,
      <<"ps-t0", " ", "=", " ", "X">>,
      <<" ", "PS-T0", "=", "X", " ">>,
      <<"ps-t0", " ", "=", " ">>,
      <<"run", " ", "=", " ", "CommandList", "Face">> }

FaceBodies ==
    FaceIdemBodies \cup {<<"run", " ", "=", " ", "CommandList", "\\", "Face">>}

MaxFaceLines == 3
MaxIdemLines == 3

InitFace ==
    /\ pc = "start"
    /\ text \in TextsOf(FaceBodies, Endings, MaxFaceLines)
    /\ auto_mode \in BOOLEAN
    /\ manual_excludes \in SUBSET {HdrFace, HdrBody}
    /\ process_disabled = FALSE
    /\ Idle
    /\ NoFiles

InitFaceIdem ==
    /\ pc = "start"
    /\ text \in TextsOf(FaceIdemBodies, Endings, MaxIdemLines)
    /\ auto_mode = FALSE
    /\ manual_excludes \in {{}, {HdrBody}}
    /\ process_disabled = FALSE
    /\ Idle
    /\ NoFiles

\* split_into_sections, then process_face_sections (lines 313-314).
FacePass ==
    /\ pc = "start"
    /\ sections' = split_into_sections(text)
    /\ face' = process_face_sections(sections', auto_mode, manual_excludes)
    /\ pc' = "face"
    /\ UNCHANGED <<inputVars, mainVars, sections2, face2, orfix, orfix2, driver>>

\* The same pass on the text the first pass returned.
FaceAgain ==
    /\ pc = "face"
    /\ sections2' = split_into_sections(face.new_text)
    /\ face2' = process_face_sections(sections2', auto_mode, manual_excludes)
    /\ pc' = "face2"
    /\ UNCHANGED <<inputVars, mainVars, sections, face, orfix, orfix2, driver>>

NextFace == FacePass \/ FaceAgain

SpecFace == InitFace /\ [][NextFace]_vars
SpecFaceIdem == InitFaceIdem /\ [][NextFace]_vars

\* The number of lines in the sections before section i.
RECURSIVE SectionOffset(_, _)
SectionOffset(secs, i) ==
    IF i <= 1 THEN 0 ELSE SectionOffset(secs, i - 1) + Len(secs[i - 1].lines)

\* A whole-line "run = CommandList<anything>Face<anything>" directive,
\* ignoring case, as the specification words it.
AnyRunFace(line) ==
    LET s == Strip(line)
        b == IF s = <<>> THEN <<>> ELSE LStrip(Tail(s))
        name == IF b = <<>> THEN <<>> ELSE LStrip(Tail(b))
    IN  /\ s # <<>> /\ Lower(s[1]) = "run"
        /\ b # <<>> /\ b[1] = "="
        /\ Len(name) >= 2
        /\ Lower(name[1]) = "commandlist"
        /\ \E i \in 2..Len(name) : HasFace(name[i])

\* Eligibility of a section as the specification words it.
StatedFaceEligible(sec, excludes) ==
    /\ ~(sec.named /\ Bracketed(sec.header) \in excludes)
    /\ \/ is_face_section_by_header(sec)
       \/ \E j \in 1..Len(sec.lines) : AnyRunFace(sec.lines[j])

\* C2: process_face_sections rewrites a line iff the line is a ps-t0
\* assignment and its section is eligible (name not excluded, and a face
\* header or a whole-line run = CommandList<anything>Face<anything>
\* directive); every other line passes through unchanged, and the result does
\* not depend on auto_mode.
C2_FaceRewritesIffEligible ==
    pc = "face" =>
        /\ Len(face.out_lines) = Len(SectionLines(sections))
        /\ \A i \in 1..Len(sections) : \A j \in 1..Len(sections[i].lines) :
              (face.out_lines[SectionOffset(sections, i) + j] # sections[i].lines[j])
              <=> (/\ PS_T0_RE(sections[i].lines[j]).ok
                   /\ StatedFaceEligible(sections[i], manual_excludes))
        /\ face = process_face_sections(sections, ~auto_mode, manual_excludes)

\* C8: the text process_face_sections returns has as many lines as the
\* input, and its i-th line ends as the input's i-th line does.
C8_FaceKeepsLinesAndEndings ==
    pc = "face" =>
        LET inl == splitlines(text)
            outl == splitlines(face.new_text)
        IN  /\ Len(outl) = Len(inl)
            /\ \A i \in 1..Len(inl) : LineEnding(outl[i]) = LineEnding(inl[i])

\* Whether some eligible section of secs holds a line matching PS_T0_RE.
EligiblePsT0Left(secs, excludes) ==
    \E i \in 1..Len(secs) :
        /\ FaceAllowed(secs[i], excludes)
        /\ \E j \in 1..Len(secs[i].lines) : PS_T0_RE(secs[i].lines[j]).ok

\* C6: the FaceFix pass run on the text it produced records no change and
\* returns that text; no eligible section of it holds a ps-t0 assignment.
C6_FaceIdempotent ==
    pc = "face2" =>
        /\ face2.changed = <<>>
        /\ face2.new_text = face.new_text
        /\ ~EligiblePsT0Left(sections2, manual_excludes)

\* The second pass has run on a text in which the first rewrote two lines.
C6_Witness ==
    /\ pc = "face2"
    /\ Len(face.changed) >= 2
    /\ face.new_text # text

(***************************************************************************)
(* The ORFix pass                                                          *)
(***************************************************************************)

HdrA == <<"[", "CommandList", "A", "]">>
HdrLowerA == <<"[", "commandlist", "A", "]">>
HdrIB == <<"[", "Resource", "IB", "]">>
HdrNormalMap == <<"[", "TextureOverride", "NormalMap", "]">>
HdrLoadA2 == <<"[", "CommandList", "LoadA2", "]">>
HdrLimb == <<"[", "TextureOverride", "Limb", "]">>

RunNNFix == <<"run", " ", "=", " ", "CommandList", "\\global\\ORFix\\", "NNFix">>

\* The lines of the ORFix inputs: headers (plain, lower case, of a resource
\* whose name ends in IB, with NormalMap in the name, of a listed command
\* list, with "limb" in the name), slot assignments and a derived directive.
OrfixBodies ==
    { HdrA, HdrLowerA, HdrIB, HdrNormalMap, HdrLoadA2, HdrLimb,
      <<"ps-t0", " ", "=", " ", "X">>,
      <<"PS-T0", " ", "=", " ", "X">>,
      <<"ps-t1", " ", "=", " ", "NormalMap">>,
      RunNNFix }

\* A file is read in text mode (open(file_path, "r")), where every line ends
\* in "\n" and the last one may have no terminator.
OrfixEndings == {<<"\n">>, <<>>}

MaxOrfixLines == 4

InitOrfix ==
    /\ pc = "start"
    /\ text \in TextsOf(OrfixBodies, OrfixEndings, MaxOrfixLines)
    /\ auto_mode \in BOOLEAN
    /\ manual_excludes \in {{}, {HdrA}}
    /\ process_disabled = FALSE
    /\ Idle
    /\ NoFiles

\* process_orfix_sections on the input text.
OrfixPass ==
    /\ pc = "start"
    /\ orfix' = process_orfix_sections(text, auto_mode, manual_excludes)
    /\ pc' = "orfix"
    /\ UNCHANGED <<inputVars, mainVars, sections, face, sections2, face2, orfix2, driver>>

\* process_orfix_sections on the text the first pass returned.
OrfixAgain ==
    /\ pc = "orfix"
    /\ orfix2' = process_orfix_sections(orfix.new_text, auto_mode, manual_excludes)
    /\ pc' = "orfix2"
    /\ UNCHANGED <<inputVars, mainVars, sections, face, sections2, face2, orfix, driver>>

NextOrfix == OrfixPass \/ OrfixAgain

SpecOrfix == InitOrfix /\ [][NextOrfix]_vars

\* A command-list or texture-override header, the prefix compared ignoring
\* case, as the specification words it.
StatedOrfixHeader(line) ==
    LET s == Strip(line)
    IN  Len(s) >= 2 /\ s[1] = "[" /\ IsPrefixLexeme(s[2])

\* The lines of the block whose header is line i of lines: up to the next
\* such header or the end.
StatedBlockBody(lines, i) ==
    LET later == {j \in (i + 1)..Len(lines) : StatedOrfixHeader(lines[j])}
        end == IF later = {} THEN Len(lines)
               ELSE (CHOOSE j \in later : \A k \in later : j <= k) - 1
    IN  SubSeq(lines, i + 1, end)

\* Eligibility of the block at line i as the specification words it.
StatedOrfixEligible(lines, i, auto, excludes) ==
    LET name == SectionOf(lines[i])
    IN  /\ \E j \in 1..Len(StatedBlockBody(lines, i)) :
              IsPsT0Assignment(StatedBlockBody(lines, i)[j])
        /\ ~should_auto_exclude_section(name)
        /\ IF auto THEN ~should_auto_mode_exclude(name)
           ELSE Bracketed(name) \notin excludes

\* C3: a section is passed to process_orfix_block iff its name starts with
\* the CommandList or TextureOverride prefix (compared ignoring case), it
\* holds a ps-t0 assignment, it matches no structural exclusion pattern and
\* the mode's exclusion does not fire; when no section is, the text is
\* emitted unchanged.
C3_OrfixProcessesIffEligible ==
    pc = "orfix" =>
        LET lines == splitlines(text)
            heads == {i \in 1..Len(lines) : StatedOrfixHeader(lines[i])}
        IN  /\ \A i \in heads :
                  StatedOrfixEligible(lines, i, auto_mode, manual_excludes)
                  <=> \E k \in 1..Len(orfix.blocks) :
                         orfix.blocks[k].at = i /\ orfix.blocks[k].processed
            /\ (\A i \in heads :
                  ~StatedOrfixEligible(lines, i, auto_mode, manual_excludes))
               => orfix.new_text = text

\* C4: a section ([Name] up to the next header) whose name matches a
\* structural auto-exclusion pattern comes out of process_orfix_sections with
\* its lines as they were, and no change is recorded under its name.
C4_AutoExcludedUntouched ==
    pc = "orfix" =>
        LET ins == split_into_sections(text)
            outs == split_into_sections(orfix.new_text)
        IN  \A i \in 1..Len(ins) :
                (ins[i].named /\ should_auto_exclude_section(ins[i].header)) =>
                    /\ \E j \in 1..Len(outs) :
                          outs[j].named /\ outs[j].header = ins[i].header
                          /\ outs[j].lines = ins[i].lines
                    /\ \A k \in 1..Len(orfix.all_changes) :
                          orfix.all_changes[k].section # ins[i].header

\* C5: process_orfix_sections run on the text it returned records no change
\* and returns that text.
C5_OrfixIdempotent ==
    pc = "orfix2" =>
        /\ orfix2.all_changes = <<>>
        /\ orfix2.new_text = orfix.new_text

\* C9: a processed block without a derived directive gets exactly one
\* ORFIX_ADD change, no ORFIX_REMOVE change and exactly one more line, the
\* directive: ...\ORFix if a line of the block, its header line included,
\* holds "NormalMap", ...\NNFix otherwise.
C9_OrfixAddsOneDirective ==
    pc = "orfix" =>
        \A k \in 1..Len(orfix.blocks) :
            LET b == orfix.blocks[k]
                run == CorrectRun(HasNormalMap(b.header_line)
                                  \/ \E j \in 1..Len(b.body) : HasNormalMap(b.body[j]))
                inl == splitlines(Concat(b.body))
                outl == splitlines(Concat(b.out))
            IN  (b.processed /\ \A j \in 1..Len(b.body) : ~RUN_LINE_PATTERN(b.body[j])) =>
                    /\ b.changes = <<[kind |-> "ORFIX_ADD", section |-> b.section,
                                      data |-> Strip(run)]>>
                    /\ \E q \in 0..Len(inl) :
                          outl = SubSeq(inl, 1, q) \o <<run>> \o SubSeq(inl, q + 1, Len(inl))

\* C11: in the block process_orfix_block returns for a processed block that
\* holds a slot assignment (ps-t<digits>), wherever its derived directives
\* sat, the line right after the last slot assignment is the correct derived
\* directive, on a line of its own.
C11_DirectiveFollowsLastSlot ==
    pc = "orfix" =>
        \A k \in 1..Len(orfix.blocks) :
            LET b == orfix.blocks[k]
                run == CorrectRun(\E j \in 1..Len(b.body) : HasNormalMap(b.body[j]))
                outl == splitlines(Concat(b.out))
                p == LastPsIndex(outl)
            IN  (b.processed /\ \E j \in 1..Len(b.body) : IsSlotLine(b.body[j])) =>
                    /\ p # 0
                    /\ p < Len(outl)
                    /\ Strip(outl[p + 1]) = Strip(run)

(***************************************************************************)
(* The combined driver on one file                                         *)
(***************************************************************************)

HdrConstants == <<"[", "Constants", "]">>

\* The lines of the driver's inputs: a command-list header, a face header, a
\* header of another kind, a slot assignment, a derived directive and a
\* comment holding the DISABLED marker.
DriverBodies ==
    { HdrA, HdrFace, HdrConstants,
      <<"ps-t0", " ", "=", " ", "X">>,
      RunNNFix,
      <<";", " ", "DISABLED">> }

MaxDriverLines == 4

InitDriver ==
    /\ pc = "start"
    /\ text \in TextsOf(DriverBodies, OrfixEndings, MaxDriverLines)
    /\ auto_mode \in BOOLEAN
    /\ manual_excludes = {}
    /\ process_disabled \in BOOLEAN
    /\ Idle
    /\ NoFiles

\* process_file_combined on a file holding text; the read succeeds or raises.
Combined ==
    /\ pc = "start"
    /\ \E read_ok \in BOOLEAN :
          driver' = process_file_combined(text, read_ok, auto_mode, manual_excludes,
                                          process_disabled)
    /\ pc' = "driver"
    /\ UNCHANGED <<inputVars, mainVars, sections, face, sections2, face2, orfix, orfix2>>

SpecDriver == InitDriver /\ [][Combined]_vars

\* C7: the text the combined driver returns for a file it read splits into
\* as many sections as the input text does.
C7_DriverKeepsSectionCount ==
    (pc = "driver" /\ driver.read_ok) =>
        Len(split_into_sections(driver.new_text)) = Len(split_into_sections(text))

(***************************************************************************)
(* main: collect, preview, confirm, apply                                  *)
(***************************************************************************)

NumFiles == 2

Files == 1..NumFiles

\* The contents of the files: one ORFix changes, one FaceFix changes, one
\* that needs no change, one that holds the DISABLED marker.
MainContents ==
    { HdrA \o <<"\n", "ps-t0", " ", "=", " ", "X", "\n">>,
      HdrFace \o <<"\n", "ps-t0", " ", "=", " ", "X", "\n">>,
      HdrConstants \o <<"\n">>,
      <<";", " ", "DISABLED", "\n">> \o HdrA \o <<"\n", "ps-t0", " ", "=", " ", "X", "\n">> }

\* The run starts at "Confirm? (Y/N)", the mode and the options chosen.
InitMain ==
    /\ pc = "options"
    /\ text = <<>>
    /\ auto_mode \in BOOLEAN
    /\ manual_excludes = {}
    /\ process_disabled \in BOOLEAN
    /\ make_backup \in BOOLEAN
    /\ orig \in [Files -> MainContents]
    /\ disk = orig
    /\ ini_files = <<>>
    /\ idx = 0
    /\ results = <<>>
    /\ final_texts = <<>>
    /\ apply_confirmed = FALSE
    /\ written = {}
    /\ failed = {}
    /\ Idle

\* if input("\nConfirm? (Y/N): ") ... != 'y': return
ConfirmOptions ==
    /\ pc = "options"
    /\ \E yes \in BOOLEAN : pc' = IF yes THEN "scan" ELSE "done"
    /\ UNCHANGED <<inputVars, passVars, mainVars>>

\* is_disabled_file(file_path), for a file whose name does not hold
\* "disabled": the marker is looked for in the content; a read that raises
\* gives False.
is_disabled_file(content, readable) ==
    IF readable THEN HasDisabledMarker(content) ELSE FALSE

\* The files of 1..n, in order, that the walk keeps.
RECURSIVE Collect(_, _, _)
Collect(n, unreadable, disabled_too) ==
    IF n = 0 THEN <<>>
    ELSE LET rest == Collect(n - 1, unreadable, disabled_too)
         IN  IF ~is_disabled_file(disk[n], n \notin unreadable) \/ disabled_too
             THEN Append(rest, n) ELSE rest

\* The walk over the folder; "No .ini files found." ends the run.
Scan ==
    /\ pc = "scan"
    /\ \E unreadable \in SUBSET Files :
          /\ ini_files' = Collect(NumFiles, unreadable, process_disabled)
          /\ pc' = IF ini_files' = <<>> THEN "done"
                   ELSE IF auto_mode THEN "analyze" ELSE "excludes"
    /\ idx' = 1
    /\ UNCHANGED <<inputVars, passVars, orig, disk, make_backup, results, final_texts,
                   apply_confirmed, written, failed>>

\* collect_sections(ini_files) without the sections auto-excluded: the
\* headers main asks about.
AskedSections ==
    {Strip(l) : l \in
        {ln \in UNION {{splitlines(disk[ini_files[i]])[j] :
                            j \in 1..Len(splitlines(disk[ini_files[i]]))} :
                       i \in 1..Len(ini_files)} :
            IsOrfixHeader(ln) /\ ~should_auto_exclude_section(SectionOf(ln))}}

\* Manual mode: the user answers "Exclude [Name]? (y/n)" for each of them.
ChooseExcludes ==
    /\ pc = "excludes"
    /\ manual_excludes' \in SUBSET AskedSections
    /\ pc' = "analyze"
    /\ UNCHANGED <<text, auto_mode, process_disabled, passVars, mainVars>>

\* A mutant of KeepsResult: every file analysed is kept for writing.
KeepsEveryResult(r) == TRUE

\* if has_changes: changes_by_file[ini_file] = changes; final_texts[...] = ...
KeepsResult(r) == r.has_changes

\* The result r of process_file_combined for file f is logged, and kept
\* for writing if it has changes.
Analyzed(f, r) ==
    /\ results' = Append(results, [file |-> f, read_ok |-> r.read_ok,
                                   skipped |-> r.skipped, has_changes |-> r.has_changes])
    /\ final_texts' = IF KeepsResult(r)
                      THEN Append(final_texts, [file |-> f, new_text |-> r.new_text])
                      ELSE final_texts

\* One turn of the preview loop: process_file_combined on the next file,
\* whose read succeeds or raises.
AnalyzeFile ==
    /\ pc = "analyze"
    /\ idx <= Len(ini_files)
    /\ \E read_ok \in BOOLEAN :
          Analyzed(ini_files[idx],
                   process_file_combined(disk[ini_files[idx]], read_ok, auto_mode,
                                         manual_excludes, process_disabled))
    /\ idx' = idx + 1
    /\ UNCHANGED <<pc, inputVars, passVars, orig, disk, make_backup, ini_files,
                   apply_confirmed, written, failed>>

\* After the loop: "No changes needed." ends the run; otherwise the preview
\* is shown and the user confirms or cancels.
ConfirmApply ==
    /\ pc = "analyze"
    /\ idx > Len(ini_files)
    /\ \/ /\ final_texts = <<>>
          /\ pc' = "done"
          /\ UNCHANGED apply_confirmed
       \/ /\ final_texts # <<>>
          /\ \E yes \in BOOLEAN :
                /\ apply_confirmed' = yes
                /\ pc' = IF yes THEN "apply" ELSE "done"
    /\ idx' = 1
    /\ UNCHANGED <<inputVars, passVars, orig, disk, make_backup, ini_files, results,
                   final_texts, written, failed>>

\* What a write that raises after open(ini_file, "w") leaves in the file.
Truncated == <<>>

\* One turn of the apply loop, in its try block: the backup copy raises, or
\* open raises, or the write raises after the file was truncated, or the
\* file is written; the except clause reports and the loop goes on.
ApplyFile ==
    /\ pc = "apply"
    /\ idx <= Len(final_texts)
    /\ LET f == final_texts[idx].file
       IN  \/ /\ make_backup
              /\ failed' = failed \cup {f}
              /\ UNCHANGED <<disk, written>>
           \/ /\ failed' = failed \cup {f}
              /\ UNCHANGED <<disk, written>>
           \/ /\ disk' = [disk EXCEPT ![f] = Truncated]
              /\ written' = written \cup {f}
              /\ failed' = failed \cup {f}
           \/ /\ disk' = [disk EXCEPT ![f] = final_texts[idx].new_text]
              /\ written' = written \cup {f}
              /\ UNCHANGED failed
    /\ idx' = idx + 1
    /\ UNCHANGED <<pc, inputVars, passVars, orig, make_backup, ini_files, results,
                   final_texts, apply_confirmed>>

\* "Done! Processed n files."
Finish ==
    /\ pc = "apply"
    /\ idx > Len(final_texts)
    /\ pc' = "done"
    /\ UNCHANGED <<inputVars, passVars, mainVars>>

NextMain ==
    \/ ConfirmOptions
    \/ Scan
    \/ ChooseExcludes
    \/ AnalyzeFile
    \/ ConfirmApply
    \/ ApplyFile
    \/ Finish

SpecMain == InitMain /\ [][NextMain]_vars

\* The record of results for file f, if f was analysed.
ResultsOf(f) == {results[i] : i \in {j \in 1..Len(results) : results[j].file = f}}

\* C10: in a run of main a file is overwritten only if process_file_combined
\* returned has_changes for it and the user confirmed; a file whose read
\* failed or that was skipped for its DISABLED marker is never written; and
\* when the run ends after the apply loop, every file with changes has had
\* its turn, whatever failed before it.
C10_MainWritesOnlyConfirmedChanges ==
    /\ \A f \in Files :
          (f \in written \/ disk[f] # orig[f]) =>
              /\ apply_confirmed
              /\ \E r \in ResultsOf(f) : r.has_changes
    /\ \A f \in Files : \A r \in ResultsOf(f) :
          (~r.read_ok \/ r.skipped) => (f \notin written /\ disk[f] = orig[f])
    /\ (pc = "done" /\ apply_confirmed) =>
          \A i \in 1..Len(final_texts) :
              final_texts[i].file \in written \cup failed

\* The run has ended with a file whose backup or write failed and a later
\* file written.
C10_Witness ==
    /\ pc = "done"
    /\ Len(final_texts) >= 2
    /\ final_texts[1].file \in failed
    /\ final_texts[2].file \in written \ failed

====
